---------------------------- MODULE Spec2Model ----------------------------
(***************************************************************************)
(* The redis-strings cache handler (tag index, TTL index, revalidation     *)
(* markers) of nextjs-cache-handler, over a model of the Redis commands it *)
(* issues.  The file handlers/composite.ts holds the composite handler     *)
(* (lines 1-68) followed by the redis-strings handler (lines 70-411).      *)
(*                                                                         *)
(* Two handler instances are modelled, one per keyExpirationStrategy, each *)
(* with its own store; a handler is named by its strategy.                 *)
(***************************************************************************)
EXTENDS Integers, Sequences, FiniteSets, TLC

VARIABLES
    redis,      \* [Handlers -> store]: the remote store behind each handler's client
    isReady,    \* client.isReady, the same connection state for both clients
    now,        \* the wall clock, Date.now(), in milliseconds
    ret,        \* the last completed call: its name, arguments, time and result
    lastSet,    \* history: per key, the entry of the last completed set (none after delete)
    invalidated,\* history: per key, a revalidateTag of a tag of lastSet[key] completed since
    revalCalled,\* history: some revalidateTag call has been made
    markedAt,   \* history: per tag, the time of the last completed revalidateTag of it, if implicit
    calls,      \* how many calls have been made
    queue,      \* [Procs -> sequence of commands issued and not yet executed by the store]
    call,       \* [Procs -> the call the process made]
    failed,     \* [Procs -> one of the commands of the process's call was rejected]
    fan         \* the composite handler's call in flight or last made, and its members' calls

vars == <<redis, isReady, now, ret, lastSet, invalidated, revalCalled, markedAt, calls, queue, call,
          failed, fan>>

----------------------------------------------------------------------------
(* Bounds and input sets *)

MaxCalls == 3        \* at most this many calls are made in one run
MaxTicks == 2        \* the clock stops after this many ticks
revalidateTagQuerySize == 1   \* the HSCAN page size the handlers are configured with
MsPerSecond == 1000  \* ttlInSeconds * 1000
TickMs == MsPerSecond              \* the clock advances a second at a time

Handlers == {"EXAT", "EXPIREAT"}
KeyOrder == <<"k1", "k2">>          \* the order in which HSCAN walks the fields
Keys == {KeyOrder[i] : i \in 1..Len(KeyOrder)}
Tags == {"a", "b", "_N_T_/p"}
ImplicitTags == {"_N_T_/p"}
TagLists == {<<>>, <<"a">>, <<"_N_T_/p", "a", "_N_T_/p">>}
Values == {"v1"}
ExpireAts == {1}                    \* lifespan.expireAt, in seconds
Procs == {"p1", "p2"}

(* Optional values: <<>> is null / undefined / an absent field, <<x>> is x. *)
None == <<>>
Some(x) == <<x>>

Lifespans == {None} \cup {Some([expireAt |-> x]) : x \in ExpireAts}

\* CacheHandlerValue as far as the handler reads it; value is the opaque payload
Entry(v, tags, lm, ls) == [value |-> v, tags |-> tags, lastModified |-> lm, lifespan |-> ls]

SeqToSet(s) == {s[i] : i \in 1..Len(s)}

----------------------------------------------------------------------------
(* Conversions: what is stored in Redis is a string *)

RECURSIVE NumToStr(_)
\* String(n) of a non-negative integer: its decimal digits
NumToStr(n) == IF n < 10 THEN <<n>> ELSE Append(NumToStr(n \div 10), n % 10)

RECURSIVE ParseInt(_)
\* Number.parseInt(s, 10) / Number(s) of a string of decimal digits
ParseInt(s) == IF Len(s) = 0 THEN 0
               ELSE 10 * ParseInt(SubSeq(s, 1, Len(s) - 1)) + s[Len(s)]

\* JSON.stringify(cacheHandlerValue): numbers become digit strings, null lifespan "null"
JSONstringify(v) ==
    <<v.value, v.tags, NumToStr(v.lastModified),
      IF v.lifespan = None THEN None ELSE Some(NumToStr(v.lifespan[1].expireAt))>>

\* JSON.parse(result) as CacheHandlerValue
JSONparse(s) ==
    [value |-> s[1], tags |-> s[2], lastModified |-> ParseInt(s[3]),
     lifespan |-> IF s[4] = None THEN None ELSE Some([expireAt |-> ParseInt(s[4][1])])]

\* strings a store may hold under a key that no set of this handler wrote
EmptyString == <<>>
NullString == <<"null">>
MalformedString == <<"{">>

\* JSON.parse(s) returns (an entry or null) rather than throwing a SyntaxError
IsJSON(s) == Len(s) = 4 \/ (Len(s) = 1 /\ s[1] = "null")

\* JSON.parse(s) returns null
IsJSONnull(s) == Len(s) = 1 /\ s[1] = "null"

\* JSON.stringify(tags) / JSON.parse(value) of a tag list in the Tag Index
TagsToStr(tags) == <<"[", tags, "]">>
StrToTags(s) == s[2]

----------------------------------------------------------------------------
(* The remote store: string keys with an expiration, and three hash maps *)

EmptyStore ==
    [str |-> [k \in Keys |-> None],              \* key -> stored string
     expire |-> [k \in Keys |-> None],           \* key -> expiration, seconds
     sharedTags |-> [k \in Keys |-> None],       \* hash sharedTagsKey: the Tag Index
     sharedTagsTtl |-> [k \in Keys |-> None],    \* hash sharedTagsTtlKey: the TTL Index
     revalidatedTags |-> [t \in Tags |-> None]]  \* hash REVALIDATED_TAGS_KEY: the markers

\* a key whose expiration has passed is gone (the store expires it)
Expired(s, k, t) == s.expire[k] # None /\ t > s.expire[k][1] * MsPerSecond

Purge(s, t) ==
    [s EXCEPT !.str = [k \in Keys |-> IF Expired(s, k, t) THEN None ELSE s.str[k]],
              !.expire = [k \in Keys |-> IF Expired(s, k, t) THEN None ELSE s.expire[k]]]

\* a command as the client sends it; every command has every field
Cmd(name, key, val, at, fields) ==
    [cmd |-> name, key |-> key, val |-> val, at |-> at, fields |-> fields]

\* the store executes one command at time t
Exec(s, c, t) ==
    CASE c.cmd = "SET" ->          \* SET key val [EXAT at]: replaces value and expiration
           Purge([s EXCEPT !.str[c.key] = Some(c.val), !.expire[c.key] = c.at], t)
      [] c.cmd = "EXPIREAT" ->     \* EXPIREAT key at: only if the key exists
           IF s.str[c.key] = None THEN s
           ELSE Purge([s EXCEPT !.expire[c.key] = c.at], t)
      [] c.cmd = "UNLINK" ->
           [s EXCEPT !.str = [k \in Keys |-> IF k \in c.fields THEN None ELSE s.str[k]],
                     !.expire = [k \in Keys |-> IF k \in c.fields THEN None ELSE s.expire[k]]]
      [] c.cmd = "HSET_TAGS" -> [s EXCEPT !.sharedTags[c.key] = Some(c.val)]
      [] c.cmd = "HSET_TTL" -> [s EXCEPT !.sharedTagsTtl[c.key] = Some(c.val)]
      [] c.cmd = "HSET_REVALIDATED" -> [s EXCEPT !.revalidatedTags[c.key] = Some(c.val)]
      [] c.cmd = "HDEL_TAGS" ->
           [s EXCEPT !.sharedTags = [k \in Keys |-> IF k \in c.fields THEN None ELSE @[k]]]
      [] c.cmd = "HDEL_TTL" ->
           [s EXCEPT !.sharedTagsTtl = [k \in Keys |-> IF k \in c.fields THEN None ELSE @[k]]]

RECURSIVE ExecAll(_, _, _)
\* the commands of one call, executed in the order they were issued
ExecAll(s, cmds, t) ==
    IF cmds = <<>> THEN s ELSE ExecAll(Exec(s, Head(cmds), t), Tail(cmds), t)

\* HSCAN hash cursor COUNT count: a page of tuples and the next cursor, 0 at the end
hScan(hash, cursor, count) ==
    LET last == IF cursor + count >= Len(KeyOrder) THEN Len(KeyOrder) ELSE cursor + count
    IN [cursor |-> IF last = Len(KeyOrder) THEN 0 ELSE last,
        tuples |-> {[field |-> KeyOrder[i], value |-> hash[KeyOrder[i]][1]] :
                      i \in {j \in (cursor + 1)..last : hash[KeyOrder[j]] # None}}]


----------------------------------------------------------------------------
(* The redis-strings handler *)

\* what a call hands back: the store after it, how it ended, and the value returned
Result(s, status, value) == [st |-> s, status |-> status, value |-> value]

\* assertClientIsReady(): TRUE when it returns, FALSE when it throws
assertClientIsReady(ready) == ready

\* isImplicitTag(tag) of @neshca/cache-handler/helpers: the tag starts with _N_T_
isImplicitTag(tag) == tag \in ImplicitTags

RECURSIVE scanAll(_, _, _)
\* do { hScan; collect tuples; cursor = next } while (cursor !== 0)
scanAll(hash, cursor, acc) ==
    LET remoteTagsPortion == hScan(hash, cursor, revalidateTagQuerySize)
        collected == acc \cup remoteTagsPortion.tuples
    IN IF remoteTagsPortion.cursor = 0 THEN collected
       ELSE scanAll(hash, remoteTagsPortion.cursor, collected)

\* mutant of revalidateTags: only the first tag of an entry is compared with tag
revalidateTagsFirstTag(s, tag) ==
    LET tagsMap == scanAll(s.sharedTags, 0, {})
        keysToDelete == {tp.field : tp \in {x \in tagsMap : tag = StrToTags(x.value)[1]}}
    IN IF keysToDelete = {} THEN <<>>
       ELSE <<Cmd("UNLINK", "", None, None, keysToDelete),
              Cmd("HDEL_TAGS", "", None, None, keysToDelete),
              Cmd("HDEL_TTL", "", None, None, keysToDelete)>>

\* revalidateTags(tag): the commands it issues after scanning the Tag Index of s
revalidateTags(s, tag) ==
    LET tagsMap == scanAll(s.sharedTags, 0, {})
        keysToDelete == {tp.field : tp \in {x \in tagsMap : tag \in SeqToSet(StrToTags(x.value))}}
    IN IF keysToDelete = {} THEN <<>>
       ELSE <<Cmd("UNLINK", "", None, None, keysToDelete),
              Cmd("HDEL_TAGS", "", None, None, keysToDelete),
              Cmd("HDEL_TTL", "", None, None, keysToDelete)>>

\* mutant of revalidateSharedKeys: the Tag Index fields of expired keys are kept
revalidateSharedKeysKeepsTags(s, t) ==
    LET ttlMap == scanAll(s.sharedTagsTtl, 0, {})
        tagsAndTtlToDelete == {tp.field : tp \in {x \in ttlMap : t > ParseInt(x.value) * MsPerSecond}}
    IN IF tagsAndTtlToDelete = {} THEN <<>>
       ELSE <<Cmd("HDEL_TTL", "", None, None, tagsAndTtlToDelete),
              Cmd("UNLINK", "", None, None, tagsAndTtlToDelete)>>

\* revalidateSharedKeys(): the commands it issues after scanning the TTL Index of s at time t
revalidateSharedKeys(s, t) ==
    LET ttlMap == scanAll(s.sharedTagsTtl, 0, {})
        tagsAndTtlToDelete == {tp.field : tp \in {x \in ttlMap : t > ParseInt(x.value) * MsPerSecond}}
    IN IF tagsAndTtlToDelete = {} THEN <<>>
       ELSE <<Cmd("HDEL_TTL", "", None, None, tagsAndTtlToDelete),
              Cmd("HDEL_TAGS", "", None, None, tagsAndTtlToDelete),
              Cmd("UNLINK", "", None, None, tagsAndTtlToDelete)>>

\* the loop over revalidationTimes: some marker of combinedTags is newer than the entry
isStale(s, cacheValue, combinedTags) ==
    LET revalidationTimes == {s.revalidatedTags[tg] : tg \in combinedTags}
    IN \E timeString \in revalidationTimes :
          timeString # None /\ ParseInt(timeString[1]) > cacheValue.lastModified

\* mutant of get: the caller's implicitTags are left out of combinedTags
getOwnTagsOnly(s, ready, key, implicitTags, t) ==
    IF ~assertClientIsReady(ready) THEN Result(s, "NotReady", None)
    ELSE LET result == s.str[key]
         IN IF result = None \/ result[1] = EmptyString THEN Result(s, "ok", None)
            ELSE IF ~IsJSON(result[1]) THEN Result(s, "SyntaxError", None)
            ELSE IF IsJSONnull(result[1]) THEN Result(s, "ok", None)
            ELSE LET cacheValue == JSONparse(result[1])
                     combinedTags == SeqToSet(cacheValue.tags)
                 IN IF combinedTags = {} THEN Result(s, "ok", Some(cacheValue))
                    ELSE IF isStale(s, cacheValue, combinedTags)
                    THEN Result(Exec(s, Cmd("UNLINK", "", None, None, {key}), t), "ok", None)
                    ELSE Result(s, "ok", Some(cacheValue))

\* mutant of get: an entry with no tags at all is reported as a miss
getSkipsUntagged(s, ready, key, implicitTags, t) ==
    IF ~assertClientIsReady(ready) THEN Result(s, "NotReady", None)
    ELSE LET result == s.str[key]
         IN IF result = None \/ result[1] = EmptyString THEN Result(s, "ok", None)
            ELSE IF ~IsJSON(result[1]) THEN Result(s, "SyntaxError", None)
            ELSE IF IsJSONnull(result[1]) THEN Result(s, "ok", None)
            ELSE LET cacheValue == JSONparse(result[1])
                     combinedTags == SeqToSet(cacheValue.tags) \cup implicitTags
                 IN IF combinedTags = {} THEN Result(s, "ok", None)
                    ELSE IF isStale(s, cacheValue, combinedTags)
                    THEN Result(Exec(s, Cmd("UNLINK", "", None, None, {key}), t), "ok", None)
                    ELSE Result(s, "ok", Some(cacheValue))

\* get(key, { implicitTags })
get(s, ready, key, implicitTags, t) ==
    IF ~assertClientIsReady(ready) THEN Result(s, "NotReady", None)
    ELSE LET result == s.str[key]
         IN IF result = None \/ result[1] = EmptyString THEN Result(s, "ok", None)
            ELSE IF ~IsJSON(result[1]) THEN Result(s, "SyntaxError", None)
            ELSE IF IsJSONnull(result[1]) THEN Result(s, "ok", None)
            ELSE LET cacheValue == JSONparse(result[1])
                     combinedTags == SeqToSet(cacheValue.tags) \cup implicitTags
                 IN IF combinedTags = {} THEN Result(s, "ok", Some(cacheValue))
                    ELSE IF isStale(s, cacheValue, combinedTags)
                    THEN Result(Exec(s, Cmd("UNLINK", "", None, None, {key}), t), "ok", None)
                    ELSE Result(s, "ok", Some(cacheValue))

\* mutant of setCommands: the TTL Index is written only for an entry that has tags
setCommandsTtlOnlyTagged(strategy, key, cacheHandlerValue) ==
    LET lifespan == cacheHandlerValue.lifespan
        expireAt == IF lifespan = None THEN None ELSE Some(lifespan[1].expireAt)
        setOperation ==
            IF strategy = "EXAT"
            THEN <<Cmd("SET", key, JSONstringify(cacheHandlerValue), expireAt, {})>>
            ELSE <<Cmd("SET", key, JSONstringify(cacheHandlerValue), None, {})>>
        expireOperation ==
            IF strategy = "EXPIREAT" /\ lifespan # None
            THEN <<Cmd("EXPIREAT", key, None, expireAt, {})>> ELSE <<>>
        setTagsOperation ==
            IF Len(cacheHandlerValue.tags) > 0
            THEN <<Cmd("HSET_TAGS", key, TagsToStr(cacheHandlerValue.tags), None, {})>> ELSE <<>>
        setSharedTtlOperation ==
            IF lifespan # None /\ Len(cacheHandlerValue.tags) > 0
            THEN <<Cmd("HSET_TTL", key, NumToStr(lifespan[1].expireAt), None, {})>> ELSE <<>>
    IN setOperation \o expireOperation \o setTagsOperation \o setSharedTtlOperation

\* mutant of setCommands: under EXPIREAT the expire command is issued before the SET
setCommandsExpireFirst(strategy, key, cacheHandlerValue) ==
    LET lifespan == cacheHandlerValue.lifespan
        expireAt == IF lifespan = None THEN None ELSE Some(lifespan[1].expireAt)
        setOperation ==
            IF strategy = "EXAT"
            THEN <<Cmd("SET", key, JSONstringify(cacheHandlerValue), expireAt, {})>>
            ELSE <<Cmd("SET", key, JSONstringify(cacheHandlerValue), None, {})>>
        expireOperation ==
            IF strategy = "EXPIREAT" /\ lifespan # None
            THEN <<Cmd("EXPIREAT", key, None, expireAt, {})>> ELSE <<>>
        setTagsOperation ==
            IF Len(cacheHandlerValue.tags) > 0
            THEN <<Cmd("HSET_TAGS", key, TagsToStr(cacheHandlerValue.tags), None, {})>> ELSE <<>>
        setSharedTtlOperation ==
            IF lifespan # None
            THEN <<Cmd("HSET_TTL", key, NumToStr(lifespan[1].expireAt), None, {})>> ELSE <<>>
    IN expireOperation \o setOperation \o setTagsOperation \o setSharedTtlOperation

\* the store commands of set(key, cacheHandlerValue), in the order they are issued
setCommands(strategy, key, cacheHandlerValue) ==
    LET lifespan == cacheHandlerValue.lifespan
        expireAt == IF lifespan = None THEN None ELSE Some(lifespan[1].expireAt)
        setOperation ==
            IF strategy = "EXAT"
            THEN <<Cmd("SET", key, JSONstringify(cacheHandlerValue), expireAt, {})>>
            ELSE <<Cmd("SET", key, JSONstringify(cacheHandlerValue), None, {})>>
        expireOperation ==
            IF strategy = "EXPIREAT" /\ lifespan # None
            THEN <<Cmd("EXPIREAT", key, None, expireAt, {})>> ELSE <<>>
        setTagsOperation ==
            IF Len(cacheHandlerValue.tags) > 0
            THEN <<Cmd("HSET_TAGS", key, TagsToStr(cacheHandlerValue.tags), None, {})>> ELSE <<>>
        setSharedTtlOperation ==
            IF lifespan # None
            THEN <<Cmd("HSET_TTL", key, NumToStr(lifespan[1].expireAt), None, {})>> ELSE <<>>
    IN setOperation \o expireOperation \o setTagsOperation \o setSharedTtlOperation

\* set(key, cacheHandlerValue), all its commands executed with no other call between them
set(s, ready, strategy, key, cacheHandlerValue, t) ==
    IF ~assertClientIsReady(ready) THEN Result(s, "NotReady", None)
    ELSE Result(ExecAll(s, setCommands(strategy, key, cacheHandlerValue), t), "ok", None)

\* mutant of revalidateTag: the marker is written for every tag, implicit or not
revalidateTagMarksEveryTag(s, ready, tag, t) ==
    IF ~assertClientIsReady(ready) THEN Result(s, "NotReady", None)
    ELSE LET marked == Exec(s, Cmd("HSET_REVALIDATED", tag, NumToStr(t), None, {}), t)
         IN Result(ExecAll(marked, revalidateTags(marked, tag) \o revalidateSharedKeys(marked, t), t),
                   "ok", None)

\* revalidateTag(tag): the marker write, then both sweeps started on the same store state
revalidateTag(s, ready, tag, t) ==
    IF ~assertClientIsReady(ready) THEN Result(s, "NotReady", None)
    ELSE LET marked == IF isImplicitTag(tag)
                       THEN Exec(s, Cmd("HSET_REVALIDATED", tag, NumToStr(t), None, {}), t)
                       ELSE s
         IN Result(ExecAll(marked, revalidateTags(marked, tag) \o revalidateSharedKeys(marked, t), t),
                   "ok", None)

\* mutant of deleteCommands: the TTL Index field of the key is kept
deleteCommandsKeepsTtl(key) ==
    <<Cmd("UNLINK", "", None, None, {key}),
      Cmd("HDEL_TAGS", "", None, None, {key})>>

\* the store commands of delete(key)
deleteCommands(key) ==
    <<Cmd("UNLINK", "", None, None, {key}),
      Cmd("HDEL_TAGS", "", None, None, {key}),
      Cmd("HDEL_TTL", "", None, None, {key})>>

\* delete(key): it does not look at client.isReady; a client that is not ready either
\* still gets the commands through (applied = TRUE) or rejects them itself
delete(s, ready, applied, key, t) ==
    IF ready \/ applied THEN Result(ExecAll(s, deleteCommands(key), t), "ok", None)
    ELSE Result(s, "ClientClosed", None)


----------------------------------------------------------------------------
(* Calls that run one at a time, made on both handlers alike *)

NoCall == [op |-> "none", key |-> "", tag |-> "", implicitTags |-> {},
           res |-> [h \in Handlers |-> [status |-> "ok", value |-> None]]]

Returned(op, key, tag, implicitTags, r) ==
    [op |-> op, key |-> key, tag |-> tag, implicitTags |-> implicitTags,
     res |-> [h \in Handlers |-> [status |-> r[h].status, value |-> r[h].value]]]

\* the composite handler has made no call
NoFan == [op |-> "none", key |-> "", tag |-> "", implicitTags |-> {}, strategy |-> None,
          entry |-> None, status |-> "none", value |-> None,
          member |-> [h \in Handlers |-> "idle"]]

Init ==
    /\ redis = [h \in Handlers |-> EmptyStore]
    /\ isReady = TRUE
    /\ now = 0
    /\ ret = NoCall
    /\ lastSet = [k \in Keys |-> None]
    /\ invalidated = [k \in Keys |-> FALSE]
    /\ revalCalled = FALSE
    /\ markedAt = [t \in Tags |-> None]
    /\ calls = 0
    /\ queue = [p \in Procs |-> <<>>]
    /\ call = [p \in Procs |-> None]
    /\ failed = [p \in Procs |-> FALSE]
    /\ fan = NoFan

\* the host writes an entry it has just rendered: lastModified is the current time
Set(key, value, tags, lifespan) ==
    LET cacheHandlerValue == Entry(value, tags, now, lifespan)
        r == [h \in Handlers |-> set(redis[h], isReady, h, key, cacheHandlerValue, now)]
    IN /\ calls < MaxCalls
       /\ redis' = [h \in Handlers |-> r[h].st]
       /\ ret' = Returned("set", key, "", {}, r)
       /\ lastSet' = IF isReady THEN [lastSet EXCEPT ![key] = Some(cacheHandlerValue)] ELSE lastSet
       /\ invalidated' = IF isReady THEN [invalidated EXCEPT ![key] = FALSE] ELSE invalidated
       /\ calls' = calls + 1
       /\ UNCHANGED <<isReady, now, revalCalled, markedAt, queue, call, failed, fan>>

Get(key, implicitTags) ==
    LET r == [h \in Handlers |-> get(redis[h], isReady, key, implicitTags, now)]
    IN /\ calls < MaxCalls
       /\ redis' = [h \in Handlers |-> r[h].st]
       /\ ret' = Returned("get", key, "", implicitTags, r)
       /\ calls' = calls + 1
       /\ UNCHANGED <<isReady, now, lastSet, invalidated, revalCalled, markedAt, queue, call, failed, fan>>

RevalidateTag(tag) ==
    LET r == [h \in Handlers |-> revalidateTag(redis[h], isReady, tag, now)]
    IN /\ calls < MaxCalls
       /\ redis' = [h \in Handlers |-> r[h].st]
       /\ ret' = Returned("revalidateTag", "", tag, {}, r)
       /\ invalidated' =
            IF isReady
            THEN [k \in Keys |-> invalidated[k] \/
                     (lastSet[k] # None /\ tag \in SeqToSet(lastSet[k][1].tags))]
            ELSE invalidated
       /\ revalCalled' = (revalCalled \/ isReady)
       /\ markedAt' = IF isReady /\ isImplicitTag(tag)
                       THEN [markedAt EXCEPT ![tag] = Some(now)] ELSE markedAt
       /\ calls' = calls + 1
       /\ UNCHANGED <<isReady, now, lastSet, queue, call, failed, fan>>

Delete(key, applied) ==
    LET r == [h \in Handlers |-> delete(redis[h], isReady, applied, key, now)]
    IN /\ calls < MaxCalls
       /\ (isReady => applied)
       /\ redis' = [h \in Handlers |-> r[h].st]
       /\ ret' = Returned("delete", key, "", {}, r)
       /\ lastSet' = IF applied THEN [lastSet EXCEPT ![key] = None] ELSE lastSet
       /\ invalidated' = IF applied THEN [invalidated EXCEPT ![key] = FALSE] ELSE invalidated
       /\ calls' = calls + 1
       /\ UNCHANGED <<isReady, now, revalCalled, markedAt, queue, call, failed, fan>>

\* time passes; the store drops the keys whose expiration has passed
Tick ==
    /\ now + TickMs <= MaxTicks * TickMs
    /\ now' = now + TickMs
    /\ redis' = [h \in Handlers |-> Purge(redis[h], now + TickMs)]
    /\ UNCHANGED <<isReady, ret, lastSet, invalidated, revalCalled, markedAt, calls, queue, call, failed, fan>>

\* the connection to the store is lost or comes back
Reconnect ==
    /\ isReady' = ~isReady
    /\ UNCHANGED <<redis, now, ret, lastSet, invalidated, revalCalled, markedAt, calls, queue, call, failed, fan>>

DoSet == \E key \in Keys, value \in Values, tags \in TagLists, lifespan \in Lifespans :
            Set(key, value, tags, lifespan)
DoGet == \E key \in Keys, implicitTags \in SUBSET ImplicitTags : Get(key, implicitTags)
DoRevalidateTag == \E tag \in Tags : RevalidateTag(tag)
DoDelete == \E key \in Keys : Delete(key, TRUE)

Next == DoSet \/ DoGet \/ DoRevalidateTag \/ DoDelete \/ Tick

Spec == Init /\ [][Next]_vars


----------------------------------------------------------------------------
(* The same calls on a client whose connection comes and goes *)

DoDeleteAnyClient == \E key \in Keys, applied \in BOOLEAN : Delete(key, applied)

NextReady == DoSet \/ DoGet \/ DoRevalidateTag \/ DoDeleteAnyClient \/ Reconnect

SpecReady == Init /\ [][NextReady]_vars

----------------------------------------------------------------------------
(* set calls of independent processes on one store: each process has its own client, *)
(* whose commands reach the store in the order they were issued; the commands of    *)
(* different processes interleave                                                   *)

\* process p calls set on the handler of strategy h: every command is issued before
\* the call waits for any of them
IssueSet(p, h, key, value, tags, lifespan) ==
    LET cacheHandlerValue == Entry(value, tags, now, lifespan)
    IN /\ call[p] = None
       /\ \A q \in Procs : call[q] # None => call[q][1].handler = h
       /\ assertClientIsReady(isReady)
       /\ call' = [call EXCEPT ![p] =
                      Some([handler |-> h, key |-> key, entry |-> cacheHandlerValue])]
       /\ queue' = [queue EXCEPT ![p] = setCommands(h, key, cacheHandlerValue)]
       /\ UNCHANGED <<redis, isReady, now, ret, lastSet, invalidated, revalCalled, markedAt, calls, failed, fan>>

\* the store executes the oldest outstanding command of process p
StoreExecutes(p) ==
    /\ queue[p] # <<>>
    /\ redis' = [redis EXCEPT ![call[p][1].handler] = Exec(@, Head(queue[p]), now)]
    /\ queue' = [queue EXCEPT ![p] = Tail(@)]
    /\ UNCHANGED <<isReady, now, ret, lastSet, invalidated, revalCalled, markedAt, calls, call, failed, fan>>

\* Promise.all of p's set call has resolved
SetDone(p) == call[p] # None /\ queue[p] = <<>>

DoIssueSet == \E p \in Procs, h \in Handlers, key \in Keys, value \in Values,
                 tags \in TagLists, lifespan \in Lifespans :
                 IssueSet(p, h, key, value, tags, lifespan)
DoStoreExecutes == \E p \in Procs : StoreExecutes(p)

NextConc == DoIssueSet \/ DoStoreExecutes

SpecConc == Init /\ [][NextConc]_vars

----------------------------------------------------------------------------
(* Claims about calls that run one at a time *)

\* what get(key, {implicitTags}) would return on handler h in the current state
GetValue(h, key, implicitTags) == get(redis[h], TRUE, key, implicitTags, now).value

\* the step just taken is a completed call of this name
Completed(op) == calls' = calls + 1 /\ ret'.op = op /\ isReady

\* the lifespan of entry e has elapsed at time t
Elapsed(e, t) == e.lifespan # None /\ t > e.lifespan[1].expireAt * MsPerSecond

\* C1: once revalidateTag(T) has completed, a get of any key whose entry was written
\* by a completed set with T in its tag list returns empty (until the key is set again)
TagInvalidation ==
    \A h \in Handlers :
       /\ \A k \in Keys, implicitTags \in SUBSET ImplicitTags :
             invalidated[k] => GetValue(h, k, implicitTags) = None
       /\ (ret.op = "get" /\ invalidated[ret.key]) => ret.res[h].value = None

\* C1 witness: both keys were written with a shared tag and that tag was revalidated
TagInvalidationWitness ==
    /\ ret.op = "revalidateTag"
    /\ \A k \in Keys : invalidated[k] /\ ret.tag \in SeqToSet(lastSet[k][1].tags)

\* C2: get returns empty when a marker of a tag of the entry or of implicitTags is
\* strictly newer than lastModified, and returns the stored entry otherwise
StalenessRule ==
    [][\A h \in Handlers :
         (Completed("get") /\ redis[h].str[ret'.key] # None) =>
            LET e == lastSet[ret'.key][1]
                stale == \E t \in SeqToSet(e.tags) \cup ret'.implicitTags :
                            markedAt[t] # None /\ markedAt[t][1] > e.lastModified
            IN ret'.res[h].value = IF stale THEN None ELSE Some(e)]_vars

\* C2 witness: a get with an implicit tag found a stored entry with no lifespan stale
\* although no tag of the entry was revalidated
StalenessWitness ==
    /\ ret.op = "get" /\ ret.implicitTags # {}
    /\ lastSet[ret.key] # None /\ lastSet[ret.key][1].lifespan = None
    /\ ~invalidated[ret.key]
    /\ \A t \in ret.implicitTags :
          markedAt[t] # None /\ markedAt[t][1] > lastSet[ret.key][1].lastModified
    /\ \A h \in Handlers : ret.res[h].value = None

\* the other half of C2: an entry written no earlier than the marker of the implicit
\* tag the get is made with is returned
StalenessWitnessFresh ==
    /\ ret.op = "get" /\ ret.implicitTags # {}
    /\ lastSet[ret.key] # None
    /\ \A t \in ret.implicitTags :
          markedAt[t] # None /\ markedAt[t][1] <= lastSet[ret.key][1].lastModified
    /\ \A h \in Handlers : ret.res[h].value = lastSet[ret.key]

\* C3: with no revalidateTag call and the lifespan not elapsed, get(k) after a
\* completed set(k, e) returns an entry equal to e
RoundTrip ==
    \A h \in Handlers, k \in Keys :
       (lastSet[k] # None /\ ~revalCalled /\ ~Elapsed(lastSet[k][1], now)) =>
          /\ \A implicitTags \in SUBSET ImplicitTags : GetValue(h, k, implicitTags) = lastSet[k]
          /\ (ret.op = "get" /\ ret.key = k) => ret.res[h].value = lastSet[k]

\* C3 witness: a get returned an entry with tags and a lifespan
RoundTripWitness ==
    /\ ret.op = "get" /\ ~revalCalled
    /\ \A h \in Handlers :
          /\ ret.res[h].value # None
          /\ ret.res[h].value[1].tags # <<>>
          /\ ret.res[h].value[1].lifespan # None

\* C4: a completed revalidateTag of any tag leaves no Tag Index and no TTL Index
\* field for a key whose lifespan has elapsed
IndexBoundedness ==
    [][Completed("revalidateTag") =>
         \A h \in Handlers, k \in Keys :
            \/ /\ lastSet[k] # None
               /\ Elapsed(lastSet[k][1], now)
            \/ /\ redis[h].sharedTagsTtl[k] # None
               /\ now > ParseInt(redis[h].sharedTagsTtl[k][1]) * MsPerSecond
            => /\ redis'[h].sharedTags[k] = None
               /\ redis'[h].sharedTagsTtl[k] = None]_vars

\* C4 witness: a revalidateTag of a tag no entry carries ran after the lifespan of a
\* tagged key had elapsed
IndexBoundednessWitness ==
    /\ ret.op = "revalidateTag" /\ ret.tag = "b"
    /\ \E k \in Keys :
          /\ lastSet[k] # None /\ lastSet[k][1].tags # <<>>
          /\ Elapsed(lastSet[k][1], now)
          /\ \A h \in Handlers : redis[h].sharedTags[k] = None


\* C5 as claimed: a set of an entry with an empty tag list leaves the TTL Index field
\* of its key as it was, and set changes the field only for a tagged entry with a lifespan
TtlIndexOnlyForTagged ==
    [][Completed("set") =>
         \A h \in Handlers :
            LET e == lastSet'[ret'.key][1]
            IN /\ e.tags = <<>> =>
                    redis'[h].sharedTagsTtl[ret'.key] = redis[h].sharedTagsTtl[ret'.key]
               /\ redis'[h].sharedTagsTtl[ret'.key] # redis[h].sharedTagsTtl[ret'.key] =>
                    (e.lifespan # None /\ e.tags # <<>>)]_vars

\* C5 amended: set writes the TTL Index field of its key exactly when the entry has a
\* lifespan, whatever its tag list, and never touches the field of another key
TtlIndexForLifespan ==
    [][Completed("set") =>
         \A h \in Handlers, k \in Keys :
            LET e == lastSet'[ret'.key][1]
            IN redis'[h].sharedTagsTtl[k] =
                  IF k = ret'.key /\ e.lifespan # None
                  THEN Some(NumToStr(e.lifespan[1].expireAt))
                  ELSE redis[h].sharedTagsTtl[k]]_vars

\* C5 witness: a set of an entry with a lifespan and no tags left a TTL Index field
TtlIndexForLifespanWitness ==
    /\ ret.op = "set"
    /\ lastSet[ret.key][1].tags = <<>> /\ lastSet[ret.key][1].lifespan # None
    /\ \A h \in Handlers : redis[h].sharedTagsTtl[ret.key] # None

\* C6 as claimed: the Tag Index has a field for k exactly when an entry for k that
\* was written with at least one tag is still stored
TagIndexInvariant ==
    \A h \in Handlers, k \in Keys :
       redis[h].sharedTags[k] # None <=>
          (redis[h].str[k] # None /\ JSONparse(redis[h].str[k][1]).tags # <<>>)

\* C8: the EXAT handler and the EXPIREAT handler return the same results, and their
\* stores hold the same keys, expirations, index fields and markers, so that every
\* later get returns the same on both
StrategyEquivalence ==
    /\ ret.res["EXAT"] = ret.res["EXPIREAT"]
    /\ redis["EXAT"] = redis["EXPIREAT"]

\* C8 witness: a key written with a lifespan is absent on both handlers once it elapsed,
\* with no revalidateTag or delete having removed it
StrategyEquivalenceWitness ==
    /\ ret.op = "get" /\ ~revalCalled
    /\ lastSet[ret.key] # None /\ Elapsed(lastSet[ret.key][1], now)
    /\ lastSet[ret.key][1].lastModified < lastSet[ret.key][1].lifespan[1].expireAt * MsPerSecond
    /\ \A h \in Handlers : ret.res[h].value = None

\* a revalidateTag(T) call that directly follows a completed revalidateTag(T), with
\* nothing but clock ticks between them and no lifespan elapsed by now
SecondRevalidate ==
    /\ Completed("revalidateTag") /\ ret.op = "revalidateTag" /\ ret'.tag = ret.tag
    /\ \A k \in Keys : lastSet[k] # None => ~Elapsed(lastSet[k][1], now)
    /\ \A h \in Handlers, k \in Keys :
          redis[h].sharedTagsTtl[k] # None =>
             ~(now > ParseInt(redis[h].sharedTagsTtl[k][1]) * MsPerSecond)

----------------------------------------------------------------------------
(* Claims about concurrent calls and about a store that is not ready *)

\* everything the set call c wrote for its key is what the store now holds
FromCall(c) ==
    LET s == redis[c.handler]
        e == c.entry
    IN /\ s.str[c.key] = Some(JSONstringify(e))
       /\ s.expire[c.key] = IF e.lifespan = None THEN None ELSE Some(e.lifespan[1].expireAt)
       /\ e.tags # <<>> => s.sharedTags[c.key] = Some(TagsToStr(e.tags))
       /\ e.lifespan # None => s.sharedTagsTtl[c.key] = Some(NumToStr(e.lifespan[1].expireAt))

\* C7 as claimed: after two interleaved set calls to one key have both completed, the
\* payload, the expiration, the Tag Index field and the TTL Index field of the key all
\* come from the same one of the two calls
LastWriteWins ==
    \A p \in Procs, q \in Procs :
       (p # q /\ SetDone(p) /\ SetDone(q) /\ call[p][1].key = call[q][1].key) =>
          (FromCall(call[p][1]) \/ FromCall(call[q][1]))

\* C10 as claimed: a call made while the client is not ready fails with the
\* 'not ready' error and leaves the store unchanged
NotReadyFailsFast ==
    [][(calls' = calls + 1 /\ ~isReady) =>
         \A h \in Handlers : ret'.res[h].status = "NotReady" /\ redis'[h] = redis[h]]_vars

\* get, set and revalidateTag do fail fast: only delete lacks the check
NotReadyFailsFastButDelete ==
    [][(calls' = calls + 1 /\ ~isReady /\ ret'.op # "delete") =>
         \A h \in Handlers : ret'.res[h].status = "NotReady" /\ redis'[h] = redis[h]]_vars

----------------------------------------------------------------------------
(* The handler reads keys that something else wrote *)

\* the strings another writer of the store leaves under a key
ForeignStrings == {EmptyString, NullString, MalformedString}

\* something other than this handler writes raw under key (no expiration)
ForeignWrite(key, raw) ==
    /\ calls < MaxCalls
    /\ redis' = [h \in Handlers |-> Exec(redis[h], Cmd("SET", key, raw, None, {}), now)]
    /\ lastSet' = [lastSet EXCEPT ![key] = None]
    /\ invalidated' = [invalidated EXCEPT ![key] = FALSE]
    /\ ret' = NoCall
    /\ calls' = calls + 1
    /\ UNCHANGED <<isReady, now, revalCalled, markedAt, queue, call, failed, fan>>

DoForeignWrite == \E key \in Keys, raw \in ForeignStrings : ForeignWrite(key, raw)

NextForeign == DoSet \/ DoGet \/ DoForeignWrite

SpecForeign == Init /\ [][NextForeign]_vars

\* C11: a get of a key whose stored string is empty or cannot be deserialized returns
\* empty and does not fail with an error
MalformedIsMiss ==
    [][\A h \in Handlers :
         (Completed("get") /\ redis[h].str[ret'.key] # None
            /\ (redis[h].str[ret'.key][1] = EmptyString \/ ~IsJSON(redis[h].str[ret'.key][1])))
         => (ret'.res[h].status = "ok" /\ ret'.res[h].value = None)]_vars

----------------------------------------------------------------------------
(* The composite handler over two redis-strings handlers, each with its own store *)

\* the handlers array the composite was created with
handlers == <<"EXAT", "EXPIREAT">>

\* what setStrategy hands back for an entry: nothing (no setStrategy given), or an index
StrategyResults == {None, Some(-1), Some(0), Some(1), Some(2)}

RECURSIVE compositeGetFrom(_, _, _, _, _, _)
\* for (const handler of hs) { value = await handler.get(key, ctx); if (value !== null) return value }
\* return null; called is the set of members whose get was called
compositeGetFrom(hs, stores, ready, key, implicitTags, t) ==
    IF hs = <<>> THEN [st |-> stores, status |-> "ok", value |-> None, called |-> {}]
    ELSE LET handler == Head(hs)
             r == get(stores[handler], ready, key, implicitTags, t)
             after == [stores EXCEPT ![handler] = r.st]
         IN IF r.status # "ok" \/ r.value # None
            THEN [st |-> after, status |-> r.status, value |-> r.value, called |-> {handler}]
            ELSE LET rest == compositeGetFrom(Tail(hs), after, ready, key, implicitTags, t)
                 IN [rest EXCEPT !.called = @ \cup {handler}]

\* mutant of compositeGet: the members are asked in the reverse order
compositeGetReversed(stores, ready, key, implicitTags, t) ==
    compositeGetFrom([i \in 1..Len(handlers) |-> handlers[Len(handlers) + 1 - i]],
                     stores, ready, key, implicitTags, t)

\* composite get(key, ctx)
compositeGet(stores, ready, key, implicitTags, t) ==
    compositeGetFrom(handlers, stores, ready, key, implicitTags, t)

\* mutant of compositeSet: an index that names no member selects the last member
compositeSetFallsBackToLast(stores, ready, strategy, key, cacheHandlerValue, t) ==
    LET index == IF strategy = None THEN 0 ELSE strategy[1]
        handler == IF index \in 0..(Len(handlers) - 1) THEN handlers[index + 1]
                   ELSE handlers[Len(handlers)]
        r == set(stores[handler], ready, handler, key, cacheHandlerValue, t)
    IN [st |-> [stores EXCEPT ![handler] = r.st], status |-> r.status, value |-> None,
        called |-> {handler}]

\* composite set(key, data): index = strategy?.(data) ?? 0; handler = handlers[index] ?? handlers[0]
compositeSet(stores, ready, strategy, key, cacheHandlerValue, t) ==
    LET index == IF strategy = None THEN 0 ELSE strategy[1]
        handler == IF index \in 0..(Len(handlers) - 1) THEN handlers[index + 1]
                   ELSE handlers[1]
        r == set(stores[handler], ready, handler, key, cacheHandlerValue, t)
    IN [st |-> [stores EXCEPT ![handler] = r.st], status |-> r.status, value |-> None,
        called |-> {handler}]

\* the composite call that returned, with the members it called
FanReturned(op, key, implicitTags, strategy, entry, r) ==
    [op |-> op, key |-> key, tag |-> "", implicitTags |-> implicitTags, strategy |-> strategy,
     entry |-> entry, status |-> r.status, value |-> r.value,
     member |-> [h \in Handlers |-> IF h \in r.called THEN "fulfilled" ELSE "idle"]]

CompositeSet(strategy, key, value, tags, lifespan) ==
    LET cacheHandlerValue == Entry(value, tags, now, lifespan)
        r == compositeSet(redis, isReady, strategy, key, cacheHandlerValue, now)
    IN /\ calls < MaxCalls
       /\ redis' = r.st
       /\ fan' = FanReturned("set", key, {}, strategy, Some(cacheHandlerValue), r)
       /\ calls' = calls + 1
       /\ UNCHANGED <<isReady, now, ret, lastSet, invalidated, revalCalled, markedAt, queue, call, failed>>

CompositeGet(key, implicitTags) ==
    LET r == compositeGet(redis, isReady, key, implicitTags, now)
    IN /\ calls < MaxCalls
       /\ redis' = r.st
       /\ fan' = FanReturned("get", key, implicitTags, None, None, r)
       /\ calls' = calls + 1
       /\ UNCHANGED <<isReady, now, ret, lastSet, invalidated, revalCalled, markedAt, queue, call, failed>>

DoCompositeSet == \E strategy \in StrategyResults, key \in Keys, value \in Values,
                     tags \in TagLists, lifespan \in Lifespans :
                     CompositeSet(strategy, key, value, tags, lifespan)
DoCompositeGet == \E key \in Keys, implicitTags \in SUBSET ImplicitTags :
                     CompositeGet(key, implicitTags)

NextComposite == DoCompositeSet \/ DoCompositeGet

SpecComposite == Init /\ [][NextComposite]_vars

\* the step just taken is a completed call of this name on the composite handler
CompositeCompleted(op) == calls' = calls + 1 /\ fan'.op = op /\ fan'.status = "ok"

\* the positions of the members whose own get(key) is non-empty in the current state
Hits(key, implicitTags) ==
    {i \in 1..Len(handlers) : GetValue(handlers[i], key, implicitTags) # None}

\* C12: composite get asks the members one at a time in array order and returns the first
\* non-empty result without calling the later members; it returns empty only when every
\* member returned empty
CompositeGetPriority ==
    [][CompositeCompleted("get") =>
         LET hits == Hits(fan'.key, fan'.implicitTags)
             called == {h \in Handlers : fan'.member[h] = "fulfilled"}
         IN IF hits = {}
            THEN fan'.value = None /\ called = Handlers
            ELSE \E i \in hits :
                    /\ \A j \in hits : i <= j
                    /\ fan'.value = GetValue(handlers[i], fan'.key, fan'.implicitTags)
                    /\ called = {handlers[j] : j \in 1..i}]_vars

\* C12 witness: both members hold the key with different entries and get returned the
\* entry of member 0 without calling member 1
CompositeGetPriorityWitness ==
    /\ fan.op = "get"
    /\ fan.value # None
    /\ fan.member = [h \in Handlers |-> IF h = handlers[1] THEN "fulfilled" ELSE "idle"]
    /\ GetValue(handlers[2], fan.key, fan.implicitTags) # None
    /\ GetValue(handlers[2], fan.key, fan.implicitTags) # fan.value

\* C12 witness: member 0 returned empty and get returned the entry of member 1
CompositeGetSecondWitness ==
    /\ fan.op = "get"
    /\ fan.value # None
    /\ fan.member = [h \in Handlers |-> "fulfilled"]

\* the member the claim names for a strategy result
PlacedAt(strategy) ==
    IF strategy # None /\ strategy[1] \in 0..(Len(handlers) - 1)
    THEN handlers[strategy[1] + 1] ELSE handlers[1]

\* C13: composite set calls set on exactly one member, the one at the index setStrategy
\* returned, or member 0 when there is no setStrategy or the index is outside 0..N-1;
\* the other members are unchanged
CompositeSetPlacement ==
    [][CompositeCompleted("set") =>
         LET target == PlacedAt(fan'.strategy)
         IN /\ fan'.member = [h \in Handlers |-> IF h = target THEN "fulfilled" ELSE "idle"]
            /\ (Elapsed(fan'.entry[1], now)
                  \/ get(redis'[target], TRUE, fan'.key, {}, now).value = fan'.entry)
            /\ \A h \in Handlers \ {target} : redis'[h] = redis[h]]_vars

\* C13 witness: setStrategy returned an index outside the array and member 0 was written
CompositeSetPlacementWitness ==
    /\ fan.op = "set"
    /\ fan.strategy # None
    /\ fan.strategy[1] \notin 0..(Len(handlers) - 1)
    /\ GetValue(handlers[1], fan.key, {}) = fan.entry
    /\ GetValue(handlers[2], fan.key, {}) = None

\* C13 witness: setStrategy returned 1 and only member 1 was written
CompositeSetSecondWitness ==
    /\ fan.op = "set"
    /\ fan.strategy = Some(1)
    /\ GetValue(handlers[2], fan.key, {}) = fan.entry
    /\ GetValue(handlers[1], fan.key, {}) = None

----------------------------------------------------------------------------
(* The composite handler's revalidateTag and delete: one call per member, started *)
(* together and joined by Promise.all; the members' calls settle one by one      *)

\* Promise.all over the members' calls: rejected as soon as one has rejected,
\* fulfilled when all have fulfilled
promiseAll(member) ==
    IF \E h \in Handlers : member[h] = "rejected" THEN "rejected"
    ELSE IF \A h \in Handlers : member[h] = "fulfilled" THEN "ok"
    ELSE "pending"

\* the composite call that has started a call on every member
FanStarted(op, key, tag) ==
    [op |-> op, key |-> key, tag |-> tag, implicitTags |-> {}, strategy |-> None,
     entry |-> None, status |-> "pending", value |-> None,
     member |-> [h \in Handlers |-> "pending"]]

\* composite revalidateTag(tag): handlers.map starts revalidateTag on every member
CompositeRevalidateTag(tag) ==
    /\ calls < MaxCalls
    /\ \A h \in Handlers : fan.member[h] # "pending"
    /\ fan' = FanStarted("revalidateTag", "", tag)
    /\ calls' = calls + 1
    /\ UNCHANGED <<redis, isReady, now, ret, lastSet, invalidated, revalCalled, markedAt, queue, call, failed>>

\* composite delete(key): handlers.map starts delete on every member
CompositeDelete(key) ==
    /\ calls < MaxCalls
    /\ \A h \in Handlers : fan.member[h] # "pending"
    /\ fan' = FanStarted("delete", key, "")
    /\ calls' = calls + 1
    /\ UNCHANGED <<redis, isReady, now, ret, lastSet, invalidated, revalCalled, markedAt, queue, call, failed>>

\* the call on member h settles: its client was ready or not, and a client that was not
\* ready either carried out delete's commands or rejected them
MemberSettles(h, ready, applied) ==
    LET r == IF fan.op = "revalidateTag" THEN revalidateTag(redis[h], ready, fan.tag, now)
             ELSE delete(redis[h], ready, applied, fan.key, now)
        member == [fan.member EXCEPT ![h] = IF r.status = "ok" THEN "fulfilled" ELSE "rejected"]
    IN /\ fan.member[h] = "pending"
       /\ (ready => applied)
       /\ redis' = [redis EXCEPT ![h] = r.st]
       /\ fan' = [fan EXCEPT !.member = member, !.status = promiseAll(member)]
       /\ UNCHANGED <<isReady, now, ret, lastSet, invalidated, revalCalled, markedAt, calls, queue, call, failed>>

DoCompositeRevalidateTag == \E tag \in Tags : CompositeRevalidateTag(tag)
DoCompositeDelete == \E key \in Keys : CompositeDelete(key)
DoMemberSettles == \E h \in Handlers, ready \in BOOLEAN, applied \in BOOLEAN :
                      MemberSettles(h, ready, applied)

\* a composite set is made only while no member call is outstanding
DoCompositeSetIdle == (\A h \in Handlers : fan.member[h] # "pending") /\ DoCompositeSet

NextFanOut == DoCompositeSetIdle \/ DoCompositeRevalidateTag \/ DoCompositeDelete \/ DoMemberSettles

SpecFanOut == Init /\ [][NextFanOut]_vars

\* C14: composite revalidateTag and delete call every member, and the composite call
\* completes only after every member's call has completed, also when a member's call fails
FanOutJoins ==
    (fan.op \in {"revalidateTag", "delete"} /\ fan.status # "pending")
       => \A h \in Handlers : fan.member[h] \in {"fulfilled", "rejected"}

----------------------------------------------------------------------------
(* Claims about what a call leaves alone *)

\* C15: delete(key) removes the payload, the Tag Index field and the TTL Index field of
\* that key, and leaves every other key's payload and index fields and the Revalidation
\* Marker map unchanged
DeleteFrame ==
    [][Completed("delete") =>
         \A h \in Handlers :
            /\ redis'[h].str[ret'.key] = None
            /\ redis'[h].expire[ret'.key] = None
            /\ redis'[h].sharedTags[ret'.key] = None
            /\ redis'[h].sharedTagsTtl[ret'.key] = None
            /\ \A k \in Keys \ {ret'.key} :
                  /\ redis'[h].str[k] = redis[h].str[k]
                  /\ redis'[h].expire[k] = redis[h].expire[k]
                  /\ redis'[h].sharedTags[k] = redis[h].sharedTags[k]
                  /\ redis'[h].sharedTagsTtl[k] = redis[h].sharedTagsTtl[k]
            /\ redis'[h].revalidatedTags = redis[h].revalidatedTags]_vars

\* C15 witness: a key was deleted while another key holds a payload and a field in both
\* indexes; nothing of the deleted key is left and the other key has kept all three
DeleteFrameWitness ==
    /\ ret.op = "delete"
    /\ \A h \in Handlers :
          /\ redis[h].str[ret.key] = None
          /\ redis[h].sharedTags[ret.key] = None
          /\ redis[h].sharedTagsTtl[ret.key] = None
          /\ \E k \in Keys \ {ret.key} :
                /\ redis[h].str[k] # None
                /\ redis[h].sharedTags[k] # None
                /\ redis[h].sharedTagsTtl[k] # None

\* the TTL sweep of a revalidateTag that starts in the current state removes key k
TtlSwept(h, k) ==
    /\ redis[h].sharedTagsTtl[k] # None
    /\ now > ParseInt(redis[h].sharedTagsTtl[k][1]) * MsPerSecond

\* C18: after any sequence of completed sets on a key, revalidateTag unlinks the payload
\* of the key through the TTL sweep only if the entry now stored under it has a lifespan
\* whose expireAt is in the past
TtlSweepSparesLive ==
    [][Completed("revalidateTag") =>
         \A h \in Handlers, k \in Keys :
            (TtlSwept(h, k) /\ redis[h].str[k] # None /\ redis'[h].str[k] = None)
               => Elapsed(lastSet[k][1], now)]_vars

\* C19: revalidateTag(T) leaves unchanged the payload of every key whose current entry
\* does not list T and whose lifespan has not elapsed
TagSweepSparesOthers ==
    [][Completed("revalidateTag") =>
         \A h \in Handlers, k \in Keys :
            (/\ redis[h].str[k] # None
             /\ ret'.tag \notin SeqToSet(lastSet[k][1].tags)
             /\ ~Elapsed(lastSet[k][1], now))
               => redis'[h].str[k] = redis[h].str[k]]_vars

----------------------------------------------------------------------------
(* set calls whose commands can fail: the client rejects a command (its timeout *)
(* fired, or the store answered with an error) while the others are outstanding *)

\* the client rejects the oldest outstanding command of process p; the store has
\* carried it out (applied) or not
CommandFails(p, applied) ==
    /\ queue[p] # <<>>
    /\ redis' = IF applied
                THEN [redis EXCEPT ![call[p][1].handler] = Exec(@, Head(queue[p]), now)]
                ELSE redis
    /\ queue' = [queue EXCEPT ![p] = Tail(@)]
    /\ failed' = [failed EXCEPT ![p] = TRUE]
    /\ UNCHANGED <<isReady, now, ret, lastSet, invalidated, revalCalled, markedAt, calls, call, fan>>

\* await Promise.all([...]) of p's set call has returned or thrown: every operation
\* has fulfilled, or one of them has rejected
SetSettled(p) == call[p] # None /\ (failed[p] \/ queue[p] = <<>>)

DoCommandFails == \E p \in Procs, applied \in BOOLEAN : CommandFails(p, applied)

NextFail == DoIssueSet \/ DoStoreExecutes \/ DoCommandFails

SpecFail == Init /\ [][NextFail]_vars

\* C16: set issues all its sub-operations before waiting for any, and the call completes,
\* with success or with an error, only after every one of them has settled, also when
\* one of them fails
SetJoinsAll == \A p \in Procs : SetSettled(p) => queue[p] = <<>>

----------------------------------------------------------------------------
(* revalidateTag step by step: the marker write is awaited, then both sweeps scan *)
(* their index and issue their deletions                                         *)

\* process p's call is a revalidateTag
IsRevalidate(p) == call[p] # None /\ "tag" \in DOMAIN call[p][1]

\* process p's call has returned
CallDone(p) ==
    /\ call[p] # None
    /\ queue[p] = <<>>
    /\ IsRevalidate(p) => call[p][1].phase = "sweeping"

\* no call is in flight
Idle == \A p \in Procs : call[p] = None

\* the commands revalidateTag awaits before it starts the sweeps
markCommands(tag, t) ==
    IF isImplicitTag(tag) THEN <<Cmd("HSET_REVALIDATED", tag, NumToStr(t), None, {})>> ELSE <<>>

\* process p calls revalidateTag(tag) on the handler of strategy h; markers is the
\* Revalidation Marker map at the time of the call
StartRevalidate(p, h, tag) ==
    /\ calls < MaxCalls
    /\ call[p] = None
    /\ \A q \in Procs : call[q] # None => call[q][1].handler = h
    /\ assertClientIsReady(isReady)
    /\ call' = [call EXCEPT ![p] =
                   Some([handler |-> h, tag |-> tag, at |-> now, phase |-> "marking",
                         markers |-> redis[h].revalidatedTags])]
    /\ queue' = [queue EXCEPT ![p] = markCommands(tag, now)]
    /\ calls' = calls + 1
    /\ UNCHANGED <<redis, isReady, now, ret, lastSet, invalidated, revalCalled, markedAt, failed, fan>>

\* mutant of StartSweeps: the sweeps start without waiting for the marker write
StartSweepsUnawaited(p) ==
    /\ IsRevalidate(p)
    /\ call[p][1].phase = "marking"
    /\ call' = [call EXCEPT ![p] = Some([call[p][1] EXCEPT !.phase = "sweeping"])]
    /\ queue' = [queue EXCEPT ![p] =
                    @ \o revalidateTags(redis[call[p][1].handler], call[p][1].tag)
                      \o revalidateSharedKeys(redis[call[p][1].handler], now)]
    /\ UNCHANGED <<redis, isReady, now, ret, lastSet, invalidated, revalCalled, markedAt, calls, failed, fan>>

\* Promise.all([revalidateTags(tag), revalidateSharedKeys()]): once the marker write has
\* been answered both sweeps scan their index and issue their deletions
StartSweeps(p) ==
    /\ IsRevalidate(p)
    /\ call[p][1].phase = "marking"
    /\ queue[p] = <<>>
    /\ call' = [call EXCEPT ![p] = Some([call[p][1] EXCEPT !.phase = "sweeping"])]
    /\ queue' = [queue EXCEPT ![p] =
                    revalidateTags(redis[call[p][1].handler], call[p][1].tag)
                      \o revalidateSharedKeys(redis[call[p][1].handler], now)]
    /\ UNCHANGED <<redis, isReady, now, ret, lastSet, invalidated, revalCalled, markedAt, calls, failed, fan>>

\* process p's call has returned and p is free to make its next call
Returns(p) ==
    /\ CallDone(p)
    /\ call' = [call EXCEPT ![p] = None]
    /\ UNCHANGED <<redis, isReady, now, ret, lastSet, invalidated, revalCalled, markedAt, calls, queue, failed, fan>>

\* the process that makes the calls that run one at a time
Caller == "p1"

DoStartSweeps == \E p \in Procs : StartSweeps(p)
DoReturns == \E p \in Procs : Returns(p)

\* calls made while no other call is in flight
DoSetIdle == Idle /\ DoSet
TickIdle == Idle /\ Tick
DoStartRevalidateIdle == Idle /\ \E h \in Handlers, tag \in Tags : StartRevalidate(Caller, h, tag)

NextMark == DoSetIdle \/ TickIdle \/ DoStartRevalidateIdle \/ DoStartSweeps \/ DoStoreExecutes
               \/ DoReturns

SpecMark == Init /\ [][NextMark]_vars

\* the step just taken starts the sweeps of process p's revalidateTag
SweepsStart(p) ==
    IsRevalidate(p) /\ call[p][1].phase = "marking" /\ call'[p][1].phase = "sweeping"

\* key k is named by an UNLINK among the commands cmds
Unlinks(cmds, k) == \E i \in 1..Len(cmds) : cmds[i].cmd = "UNLINK" /\ k \in cmds[i].fields

\* C17: revalidateTag(tag) writes the current timestamp into the Revalidation Marker map
\* exactly when the tag is implicit, and that write has completed before either sweep
\* starts; for another tag the marker map is unchanged; both sweeps run in either case
MarkerThenSweeps ==
    [][\A p \in Procs :
         SweepsStart(p) =>
            LET c == call[p][1]
                s == redis[c.handler]
            IN /\ s.revalidatedTags =
                     IF isImplicitTag(c.tag)
                     THEN [c.markers EXCEPT ![c.tag] = Some(NumToStr(c.at))]
                     ELSE c.markers
               /\ \A k \in Keys :
                     (s.sharedTags[k] # None /\ c.tag \in SeqToSet(StrToTags(s.sharedTags[k][1])))
                        => Unlinks(queue'[p], k)
               /\ \A k \in Keys : TtlSwept(c.handler, k) => Unlinks(queue'[p], k)]_vars

\* C17 witness: the sweeps of a revalidateTag of an implicit tag have started, the marker
\* holds the time of the call, which is later than an earlier marker of the tag
MarkerThenSweepsWitness ==
    \E p \in Procs :
       /\ IsRevalidate(p)
       /\ call[p][1].phase = "sweeping"
       /\ isImplicitTag(call[p][1].tag)
       /\ call[p][1].markers[call[p][1].tag] # None
       /\ redis[call[p][1].handler].revalidatedTags[call[p][1].tag] = Some(NumToStr(call[p][1].at))
       /\ call[p][1].markers[call[p][1].tag] # Some(NumToStr(call[p][1].at))

\* C17 witness: a revalidateTag of a tag that is not implicit has started both sweeps,
\* which remove a tagged key, and the marker map is as it was
MarkerUnchangedWitness ==
    \E p \in Procs :
       /\ IsRevalidate(p)
       /\ call[p][1].phase = "sweeping"
       /\ ~isImplicitTag(call[p][1].tag)
       /\ queue[p] # <<>>
       /\ redis[call[p][1].handler].revalidatedTags = call[p][1].markers

----------------------------------------------------------------------------
(* set and revalidateTag calls of independent processes on one store *)

\* the process that calls set and the process that calls revalidateTag
Setter == "p1"
Revalidator == "p2"

RaceSet == \E h \in Handlers, key \in Keys, value \in Values, tags \in TagLists,
              lifespan \in Lifespans : IssueSet(Setter, h, key, value, tags, lifespan)
RaceRevalidate == \E h \in Handlers, tag \in Tags : StartRevalidate(Revalidator, h, tag)

NextRace == DoSetIdle \/ RaceSet \/ RaceRevalidate \/ DoStartSweeps \/ DoStoreExecutes

SpecRace == Init /\ [][NextRace]_vars

\* C20: when set(k, e) with T in e.tags and revalidateTag(T) have run concurrently and both
\* have completed without an error, the payload of k is absent or the Tag Index holds k
\* with a tag list containing T
NoLostInvalidation ==
    \A p \in Procs, q \in Procs :
       (/\ call[p] # None /\ ~IsRevalidate(p) /\ CallDone(p)
        /\ IsRevalidate(q) /\ CallDone(q)
        /\ call[q][1].tag \in SeqToSet(call[p][1].entry.tags))
       => LET s == redis[call[p][1].handler]
              k == call[p][1].key
          IN \/ s.str[k] = None
             \/ /\ s.sharedTags[k] # None
                /\ call[q][1].tag \in SeqToSet(StrToTags(s.sharedTags[k][1]))

====
